---- MODULE Spec2Model ----
(***************************************************************************)
(* A model of tests_config/run_spec.js: the interpreter resolver, the      *)
(* interpreter set builder, the fixture loop of run_spec with the test     *)
(* units it registers, the bodies of those units, and the AST normaliser   *)
(* stripExtraNonComparableKeys.                                            *)
(***************************************************************************)
EXTENDS Naturals, Sequences, FiniteSets

VARIABLES
    \* ---- stripExtraNonComparableKeys applied to one value
    ast,                \* the argument
    stripped,           \* stripExtraNonComparableKeys(ast)
    restripped,         \* stripExtraNonComparableKeys(stripped)
    spc,                \* "idle" | "start" | "done"
    \* ---- getPythonBinAndVersion applied to one candidate list
    spawnSync,          \* the host: executable name -> result of the probe
    potentialBins,      \* the argument potentialBins
    versionSpec,        \* the argument versionSpec
    resolved,           \* [ret, spawned]: the return value and the probes made
    rpc,                \* "idle" | "start" | "done"
    \* ---- run_spec and the test units it registers
    python2BinAndVersion,
    python3BinAndVersion,
    AST_COMPARE,
    prettierDebug,      \* what prettier.__debug.parse and massageAST answer
    dirname,
    dirEntries,         \* what fs.readdirSync(dirname) lists, in its order
    parsers,
    versionRange,
    callerOptions,      \* the argument options
    options,            \* the local options after line 59
    pc,                 \* "idle" | "call" | "loop" | "returned" | "threw"
    fileIdx,            \* position of the forEach over the directory entries
    binIdx,             \* position of the forEach over the interpreters, 0 outside
    pythonBinaries,     \* the set getPythonBinaries returned for this fixture
    processed,          \* the filenames read as fixtures, in order
    closures,           \* one per (fixture, interpreter) whose units were registered
    tests,              \* the registered test units, in registration order
    ran,                \* the indices of the units that have run
    last,               \* the unit that ran last, with its outcome
    formatCalls,        \* the prettier.format invocations of the last step
    error,              \* what run_spec threw
    dirRead             \* whether fs.readdirSync was called

stripVars == <<ast, stripped, restripped, spc>>
resolveVars == <<potentialBins, versionSpec, resolved, rpc>>
inputVars == <<python2BinAndVersion, python3BinAndVersion, AST_COMPARE, prettierDebug,
               dirname, dirEntries, parsers, versionRange, callerOptions>>
runVars == <<options, pc, fileIdx, binIdx, pythonBinaries, processed, closures, tests,
             ran, last, formatCalls, error, dirRead>>
vars == <<stripVars, spawnSync, resolveVars, inputVars, runVars>>

(***************************************************************************)
(* Bounds of the model.                                                    *)
(***************************************************************************)
MaxArrLen == 1      \* longest array among the values given to the normaliser
MaxEntries == 2     \* most entries of a fixture directory
MaxParsers == 3     \* longest parser list

(***************************************************************************)
(* JavaScript values: [t |-> typeof-like tag, val |-> payload].  An array  *)
(* holds a sequence, an object a function from its own keys.               *)
(***************************************************************************)
Num(n) == [t |-> "number", val |-> n]
Str(s) == [t |-> "string", val |-> s]
Bool(b) == [t |-> "boolean", val |-> b]
Null == [t |-> "null", val |-> "null"]
Undefined == [t |-> "undefined", val |-> "undefined"]
Arr(s) == [t |-> "array", val |-> s]
Obj(f) == [t |-> "object", val |-> f]

Scalars == {Num("1"), Str("s"), Bool("true"), Null, Undefined}
Keys == {"text", "type"}

SeqsUpTo(S, n) == UNION {[1..k -> S] : k \in 0..n}
ObjectsOver(S) == UNION {[K -> S] : K \in SUBSET Keys}

JsValues1 == Scalars \cup {Arr(s) : s \in SeqsUpTo(Scalars, MaxArrLen)}
                     \cup {Obj(f) : f \in ObjectsOver(Scalars)}
JsValues == Scalars \cup {Arr(s) : s \in SeqsUpTo(JsValues1, MaxArrLen)}
                    \cup {Obj(f) : f \in ObjectsOver(JsValues1)}

\* Array.isArray(ast)
IsArray(v) == v.t = "array"
\* typeof ast === "object" (true of null as well)
TypeofObject(v) == v.t \in {"object", "null", "array"}
\* the keys a for..in loop visits (none for null)
ForInKeys(v) == IF v.t = "object" THEN DOMAIN v.val ELSE {}

RECURSIVE stripExtraNonComparableKeys(_)
stripExtraNonComparableKeys(v) ==
    IF IsArray(v)
    THEN Arr([i \in DOMAIN v.val |-> stripExtraNonComparableKeys(v.val[i])])
    ELSE IF TypeofObject(v)
    THEN Obj([key \in ForInKeys(v) \ {"text"} |->
                  stripExtraNonComparableKeys(v.val[key])])
    ELSE v

InitStripIdle ==
    /\ ast = Undefined
    /\ stripped = Undefined
    /\ restripped = Undefined
    /\ spc = "idle"

ApplyStrip ==
    /\ spc = "start"
    /\ stripped' = stripExtraNonComparableKeys(ast)
    /\ restripped' = stripExtraNonComparableKeys(stripExtraNonComparableKeys(ast))
    /\ spc' = "done"
    /\ UNCHANGED <<ast, spawnSync, resolveVars, inputVars, runVars>>

(***************************************************************************)
(* The host and semver.                                                    *)
(***************************************************************************)
Python2Candidates == <<"python2.7", "python2", "python">>
Python3Candidates == <<"python3.6", "python3", "python">>
Bins == {"python2.7", "python2", "python", "python3.6", "python3"}

\* What spawnSync(bin, ["-c", ...]) returns: the executable is missing (status
\* is null), it exits non-zero, or it exits zero and prints its version.
NotInstalled == [spawned |-> FALSE, status |-> 0, stdout |-> <<>>]
ExitsNonZero == [spawned |-> TRUE, status |-> 1, stdout |-> <<>>]
Prints(v) == [spawned |-> TRUE, status |-> 0, stdout |-> <<v, "\n">>]
PrintsNothing == [spawned |-> TRUE, status |-> 0, stdout |-> <<>>]
VersionStrings == {"2.7.15", "3.6.5", "3.8.0rc1"}
ProbeResults == {NotInstalled, ExitsNonZero, PrintsNothing} \cup {Prints(v) : v \in VersionStrings}

\* proc.status !== 0
StatusNotZero(proc) == ~proc.spawned \/ proc.status # 0

IsSpace(c) == c \in {"\n", " "}
RECURSIVE TrimStart(_)
TrimStart(s) == IF s # <<>> /\ IsSpace(Head(s)) THEN TrimStart(Tail(s)) ELSE s
RECURSIVE TrimEnd(_)
TrimEnd(s) == IF s # <<>> /\ IsSpace(s[Len(s)]) THEN TrimEnd(SubSeq(s, 1, Len(s) - 1)) ELSE s
\* stdout.toString().trim(), the text being a sequence of pieces
Trim(s) == TrimEnd(TrimStart(s))

\* semver's reading of a version string: <<>> when it is no semantic version
SemverParse(version) ==
    IF version = <<"2.7.15">> THEN <<"2", "7", "15">>
    ELSE IF version = <<"3.6.5">> THEN <<"3", "6", "5">>
    ELSE <<>>

VersionRanges == {"2.*", "3.*", "*", "x"}
\* semver.satisfies(version, range)
Satisfies(version, range) ==
    LET v == SemverParse(version) IN
    /\ v # <<>>
    /\ CASE range = "2.*" -> v[1] = "2"
         [] range = "3.*" -> v[1] = "3"
         [] OTHER -> TRUE

NullBinding == <<>>

RECURSIVE ProbeFrom(_, _, _, _)
ProbeFrom(candidates, range, i, spawned) ==
    IF i > Len(candidates)
    THEN [ret |-> NullBinding, spawned |-> spawned]
    ELSE LET bin == candidates[i]
             proc == spawnSync[bin]
             probes == Append(spawned, bin)
             version == Trim(proc.stdout)
         IN  IF StatusNotZero(proc)
             THEN ProbeFrom(candidates, range, i + 1, probes)
             ELSE IF Satisfies(version, range)
             THEN [ret |-> <<bin, version>>, spawned |-> probes]
             ELSE ProbeFrom(candidates, range, i + 1, probes)

\* A faulty variant: the first candidate that runs is taken, whatever it reports.
getPythonBinAndVersion_AnyVersion(candidates, range) ==
    LET ok == {i \in 1..Len(candidates) : ~StatusNotZero(spawnSync[candidates[i]])}
        first == CHOOSE i \in ok : \A j \in ok : i <= j
    IN  IF ok = {} THEN [ret |-> NullBinding, spawned |-> candidates]
        ELSE [ret |-> <<candidates[first], Trim(spawnSync[candidates[first]].stdout)>>,
              spawned |-> SubSeq(candidates, 1, first)]

getPythonBinAndVersion(candidates, range) == ProbeFrom(candidates, range, 1, <<>>)

InitResolveIdle ==
    /\ potentialBins = <<>>
    /\ versionSpec = "*"
    /\ resolved = [ret |-> NullBinding, spawned |-> <<>>]
    /\ rpc = "idle"

Resolve ==
    /\ rpc = "start"
    /\ resolved' = getPythonBinAndVersion(potentialBins, versionSpec)
    /\ rpc' = "done"
    /\ UNCHANGED <<potentialBins, versionSpec, spawnSync, stripVars, inputVars, runVars>>

(***************************************************************************)
(* The file system.  A filename is the sequence of its pieces, "." being a *)
(* piece of its own; every other piece holds no ".".                       *)
(***************************************************************************)
RECURSIVE LastDot(_, _)
LastDot(filename, i) ==
    IF i = 0 THEN 0 ELSE IF filename[i] = "." THEN i ELSE LastDot(filename, i - 1)

\* path.extname(filename): from the last "." on, empty when there is none or
\* when the only one leads the name
extname(filename) ==
    LET dot == LastDot(filename, Len(filename)) IN
    IF dot <= 1 THEN <<>> ELSE SubSeq(filename, dot, Len(filename))

\* fs.lstatSync(path).isFile(): lstat does not follow a symbolic link
LstatIsFile(entry) == entry.kind = "file"

\* A faulty variant: the kind of entry is not looked at.
IsFixture_NoLstat(entry) ==
    /\ extname(entry.name) # <<".", "snap">>
    /\ entry.name[1] # "."
    /\ entry.name # <<"jsfmt", ".", "spec", ".", "js">>

\* the condition of lines 73-78
IsFixture(entry) ==
    /\ extname(entry.name) # <<".", "snap">>
    /\ LstatIsFile(entry)
    /\ entry.name[1] # "."
    /\ entry.name # <<"jsfmt", ".", "spec", ".", "js">>

File(name, text) == [name |-> name, kind |-> "file", target |-> "file", text |-> text]
Directory(name) == [name |-> name, kind |-> "directory", target |-> "directory", text |-> <<>>]
Symlink(name, target, text) == [name |-> name, kind |-> "symlink", target |-> target, text |-> text]

FixtureA == File(<<"a", ".", "py">>, <<"x = 1", "\r\n">>)
FixtureB == File(<<"b", ".", "py">>, <<"y = 2", "\n">>)
SpecFile == File(<<"jsfmt", ".", "spec", ".", "js">>, <<"run_spec", "\n">>)
PlainFixtures == {FixtureA, FixtureB, SpecFile}
DirectoryEntries ==
    PlainFixtures \cup
    { File(<<"a", ".", "py", ".", "snap">>, <<"exports", "\n">>),
      File(<<".", "hidden">>, <<"h", "\n">>),
      File(<<"snap">>, <<"s", "\n">>),
      Directory(<<"__snapshots__">>),
      Symlink(<<"link", ".", "py">>, "file", <<"z = 3", "\n">>),
      Symlink(<<"linkdir">>, "directory", <<>>) }

\* the listings of at most MaxEntries entries drawn from S, no name twice
Listings(S) ==
    {d \in SeqsUpTo(S, MaxEntries) : \A i, j \in DOMAIN d : d[i].name = d[j].name => i = j}

Path(dir, filename) == <<dir, "/">> \o filename

\* read(path).replace(/\r\n/g, "\n")
Source(entry) == [i \in DOMAIN entry.text |->
                     IF entry.text[i] = "\r\n" THEN "\n" ELSE entry.text[i]]

(***************************************************************************)
(* Option sets: every known key holds <<>> when the object has no such     *)
(* key, and <<value>> when it has.                                         *)
(***************************************************************************)
OptionKeys == {"plugins", "filepath", "parser", "pythonBin"}
NoOptions == [k \in OptionKeys |-> <<>>]

\* Object.assign(target, source): the keys of source win
ObjectAssign(target, source) ==
    [k \in OptionKeys |-> IF source[k] # <<>> THEN source[k] ELSE target[k]]

\* lines 59-64
WithDefaults(opts) == ObjectAssign([NoOptions EXCEPT !.plugins = << <<".">> >>], opts)

\* A faulty variant: the caller's options are merged over the derived fields.
MergedOptions_CallerWins(opts, parser, pythonBin) ==
    ObjectAssign([NoOptions EXCEPT !.parser = <<parser>>, !.pythonBin = <<pythonBin>>], opts)

\* lines 82-85
MergedOptions(opts, parser, pythonBin) ==
    ObjectAssign(ObjectAssign(NoOptions, opts),
                 [NoOptions EXCEPT !.parser = <<parser>>, !.pythonBin = <<pythonBin>>])

\* A faulty variant: the options of the reference run are used as they are.
VerifyOptions_SameParser(mergedOptions, parserName) == mergedOptions

\* lines 95-97: the value Object.assign returns (its target, updated)
VerifyOptions(mergedOptions, parserName) ==
    ObjectAssign(mergedOptions, [NoOptions EXCEPT !.parser = <<parserName>>])

\* lines 158-168: the options prettier.format receives
PrettyprintOptions(path, opts) ==
    ObjectAssign([NoOptions EXCEPT !.filepath = <<path>>], opts)

Outputs == {"formatted-1", "formatted-2"}
Threw == "threw"
FormatResults == Outputs \cup {Threw}

\* expect(a).toEqual(b) on the values of this model
ToEqual(a, b) == a = b

(***************************************************************************)
(* getPythonBinaries and the parser-list check.                            *)
(***************************************************************************)
Unit(kind, filename, parser, env, n) ==
    [kind |-> kind, filename |-> filename, parser |-> parser, env |-> env, n |-> n]

\* A faulty variant: every range that admits all versions asks for both tracks.
BothRequested_AnyWildcard(range) == range \in {"*", "x"}

\* line 49
BothRequested(range) == range = "*"

\* lines 34-56: the list returned and the units registered
getPythonBinaries(range) ==
    LET Keep(b) == b # NullBinding /\ Satisfies(b[2], range)
        kept == SelectSeq(<<python2BinAndVersion, python3BinAndVersion>>, Keep)
        bins == [i \in 1..Len(kept) |-> kept[i][1]]
    IN  [pythonBinaries |-> bins,
         registered |->
             <<Unit("at-least-one", <<>>, "", 0, Len(bins))>> \o
             (IF BothRequested(range) THEN <<Unit("both", <<>>, "", 0, Len(bins))>>
              ELSE <<>>)]

\* A faulty variant: only a missing list is refused.
NoParsers_MissingOnly(p) == ~p.given

\* line 67: !parsers || !parsers.length
NoParsers(p) == ~p.given \/ Len(p.list) = 0

(***************************************************************************)
(* run_spec: lines 58-130.                                                 *)
(***************************************************************************)
NoError == [kind |-> "none", message |-> <<>>]
NoUnit == [unit |-> 0, kind |-> "none", status |-> "none", compared |-> FALSE]

\* lines 59-69, up to the call of fs.readdirSync
RunSpecEntry ==
    /\ pc = "call"
    /\ options' = WithDefaults(callerOptions)
    /\ IF NoParsers(parsers)
       THEN /\ pc' = "threw"
            /\ error' = [kind |-> "Error",
                         message |-> <<"No parsers were specified for ", dirname>>]
            /\ UNCHANGED <<fileIdx, dirRead>>
       ELSE /\ pc' = "loop"
            /\ dirRead' = TRUE
            /\ fileIdx' = 1
            /\ UNCHANGED error
    /\ formatCalls' = <<>>
    /\ UNCHANGED <<binIdx, pythonBinaries, processed, closures, tests, ran, last>>
    /\ UNCHANGED <<stripVars, spawnSync, resolveVars, inputVars>>

\* lines 71-81: one directory entry, up to the call of getPythonBinaries
ForEachEntry ==
    /\ pc = "loop"
    /\ binIdx = 0
    /\ fileIdx <= Len(dirEntries)
    /\ LET entry == dirEntries[fileIdx]
           got == getPythonBinaries(versionRange)
       IN  IF IsFixture(entry)
           THEN /\ processed' = Append(processed, entry.name)
                /\ tests' = tests \o got.registered
                /\ pythonBinaries' = got.pythonBinaries
                /\ IF got.pythonBinaries = <<>>
                   THEN fileIdx' = fileIdx + 1 /\ binIdx' = 0
                   ELSE fileIdx' = fileIdx /\ binIdx' = 1
           ELSE /\ fileIdx' = fileIdx + 1
                /\ UNCHANGED <<processed, tests, pythonBinaries, binIdx>>
    /\ formatCalls' = <<>>
    /\ UNCHANGED <<options, pc, closures, ran, last, error, dirRead>>
    /\ UNCHANGED <<stripVars, spawnSync, resolveVars, inputVars>>

\* line 129: the directory is exhausted and run_spec returns
ReturnFromRunSpec ==
    /\ pc = "loop"
    /\ binIdx = 0
    /\ fileIdx > Len(dirEntries)
    /\ pc' = "returned"
    /\ formatCalls' = <<>>
    /\ UNCHANGED <<options, fileIdx, binIdx, pythonBinaries, processed, closures, tests,
                   ran, last, error, dirRead>>
    /\ UNCHANGED <<stripVars, spawnSync, resolveVars, inputVars>>

\* lines 93-101: the verify units of one fixture and interpreter
VerifyUnits(filename, env) ==
    [k \in 1..(Len(parsers.list) - 1) |-> Unit("verify", filename, parsers.list[k + 1], env, 0)]

\* lines 81-127: one interpreter of the working set, for the current fixture
ForEachBin ==
    /\ pc = "loop"
    /\ binIdx >= 1
    /\ LET entry == dirEntries[fileIdx]
           filename == entry.name
           path == Path(dirname, filename)
           source == Source(entry)
           pythonBin == pythonBinaries[binIdx]
           mergedOptions == MergedOptions(options, parsers.list[1], pythonBin)
           env == Len(closures) + 1
           parsed == stripExtraNonComparableKeys(prettierDebug.rawAst)
           reformats == AST_COMPARE /\ ~prettierDebug.parseThrows
       IN  \E output \in FormatResults :
           \E again \in (IF reformats /\ output # Threw THEN FormatResults ELSE {Threw}) :
           LET refCall == [site |-> "reference", src |-> source, path |-> path,
                           options |-> PrettyprintOptions(path, mergedOptions),
                           outcome |-> output]
               ppCall == [site |-> "round-trip", src |-> source, path |-> path,
                          options |-> PrettyprintOptions(path, mergedOptions),
                          outcome |-> again]
               caught == again = Threw \/ prettierDebug.reparseThrows
               closure == [filename |-> filename, path |-> path, source |-> source,
                           pythonBin |-> pythonBin, mergedOptions |-> mergedOptions,
                           refOptions |-> refCall.options, output |-> output,
                           roundTrip |-> again,
                           ast |-> IF reformats THEN parsed ELSE Undefined,
                           astMassaged |-> IF reformats THEN prettierDebug.astMassaged
                                           ELSE Undefined,
                           ppastMassaged |-> IF reformats /\ ~caught
                                             THEN prettierDebug.ppastMassaged
                                             ELSE Undefined,
                           pperr |-> IF reformats /\ caught THEN "stack" ELSE "null"]
               snapshot == <<Unit("snapshot", filename, parsers.list[1], env, 0)>>
               parseUnit == <<Unit("parse", filename, "", env, 0)>>
           IN  IF output = Threw
               THEN /\ pc' = "threw"
                    /\ error' = [kind |-> "FormatError", message |-> path]
                    /\ formatCalls' = <<refCall>>
                    /\ UNCHANGED <<fileIdx, binIdx, closures, tests>>
               ELSE IF AST_COMPARE /\ prettierDebug.parseThrows
               THEN /\ pc' = "threw"
                    /\ error' = [kind |-> "ParseError", message |-> path]
                    /\ formatCalls' = <<refCall>>
                    /\ closures' = Append(closures, closure)
                    /\ tests' = tests \o snapshot \o VerifyUnits(filename, env)
                    /\ UNCHANGED <<fileIdx, binIdx>>
               ELSE /\ closures' = Append(closures, closure)
                    /\ tests' = tests \o snapshot \o VerifyUnits(filename, env)
                                      \o (IF AST_COMPARE THEN parseUnit ELSE <<>>)
                    /\ formatCalls' = IF AST_COMPARE THEN <<refCall, ppCall>> ELSE <<refCall>>
                    /\ IF binIdx = Len(pythonBinaries)
                       THEN fileIdx' = fileIdx + 1 /\ binIdx' = 0
                       ELSE fileIdx' = fileIdx /\ binIdx' = binIdx + 1
                    /\ UNCHANGED <<pc, error>>
    /\ UNCHANGED <<options, pythonBinaries, processed, ran, last, dirRead>>
    /\ UNCHANGED <<stripVars, spawnSync, resolveVars, inputVars>>

(***************************************************************************)
(* The test units.  The framework runs them once run_spec has returned, in *)
(* registration order, except that the verify units of one fixture and     *)
(* interpreter may run in any order among themselves.                      *)
(***************************************************************************)
CanRun(i) ==
    /\ pc = "returned"
    /\ i \in DOMAIN tests
    /\ i \notin ran
    /\ \A j \in 1..(i - 1) :
          \/ j \in ran
          \/ /\ tests[i].kind = "verify"
             /\ tests[j].kind = "verify"
             /\ tests[j].env = tests[i].env

Outcome(i, passes, compared) ==
    [unit |-> i, kind |-> tests[i].kind,
     status |-> IF passes THEN "passed" ELSE "failed", compared |-> compared]

\* line 47
AtLeastOnePasses(n) == n > 0
\* line 51
BothPasses(n) == n = 2

\* lines 46-48 and 50-52
RunAssertion(i) ==
    /\ CanRun(i)
    /\ tests[i].kind \in {"at-least-one", "both"}
    /\ last' = Outcome(i, IF tests[i].kind = "both" THEN BothPasses(tests[i].n)
                          ELSE AtLeastOnePasses(tests[i].n), FALSE)
    /\ ran' = ran \cup {i}
    /\ formatCalls' = <<>>
    /\ UNCHANGED <<options, pc, fileIdx, binIdx, pythonBinaries, processed, closures,
                   tests, error, dirRead>>
    /\ UNCHANGED <<stripVars, spawnSync, resolveVars, inputVars>>

\* lines 87-91: the snapshot store holds the same text for this name, or not
RunSnapshot(i) ==
    /\ CanRun(i)
    /\ tests[i].kind = "snapshot"
    /\ \E matches \in BOOLEAN : last' = Outcome(i, matches, FALSE)
    /\ ran' = ran \cup {i}
    /\ formatCalls' = <<>>
    /\ UNCHANGED <<options, pc, fileIdx, binIdx, pythonBinaries, processed, closures,
                   tests, error, dirRead>>
    /\ UNCHANGED <<stripVars, spawnSync, resolveVars, inputVars>>

\* lines 94-100
RunVerify(i) ==
    /\ CanRun(i)
    /\ tests[i].kind = "verify"
    /\ LET c == closures[tests[i].env]
           verifyOptions == VerifyOptions(c.mergedOptions, tests[i].parser)
       IN  /\ closures' = [closures EXCEPT ![tests[i].env].mergedOptions = verifyOptions]
           /\ \E verifyOutput \in FormatResults :
                /\ formatCalls' = <<[site |-> "verify", src |-> c.source, path |-> c.path,
                                     options |-> PrettyprintOptions(c.path, verifyOptions),
                                     outcome |-> verifyOutput]>>
                /\ last' = Outcome(i, verifyOutput # Threw /\ ToEqual(c.output, verifyOutput),
                                   FALSE)
    /\ ran' = ran \cup {i}
    /\ UNCHANGED <<options, pc, fileIdx, binIdx, pythonBinaries, processed, tests, error,
                   dirRead>>
    /\ UNCHANGED <<stripVars, spawnSync, resolveVars, inputVars>>

\* a value is truthy unless it is null or undefined (of the values met here)
Truthy(v) == v.t \notin {"null", "undefined"}
\* line 122: !ast.errors || ast.errors.length === 0
NoErrors(parsed) ==
    \/ "errors" \notin ForInKeys(parsed)
    \/ ~Truthy(parsed.val["errors"])
    \/ (IsArray(parsed.val["errors"]) /\ Len(parsed.val["errors"].val) = 0)

\* line 122
ComparesTrees(c) == NoErrors(c.ast)

\* lines 120-121: the expectations passed before the comparison
ReachesComparison(c) == c.pperr = "null" /\ c.ppastMassaged.t # "undefined"

\* lines 119-125
RunParse(i) ==
    /\ CanRun(i)
    /\ tests[i].kind = "parse"
    /\ LET c == closures[tests[i].env]
           compared == ReachesComparison(c) /\ ComparesTrees(c)
       IN  last' = Outcome(i, /\ ReachesComparison(c)
                              /\ (compared => ToEqual(c.astMassaged, c.ppastMassaged)),
                           compared)
    /\ ran' = ran \cup {i}
    /\ formatCalls' = <<>>
    /\ UNCHANGED <<options, pc, fileIdx, binIdx, pythonBinaries, processed, closures,
                   tests, error, dirRead>>
    /\ UNCHANGED <<stripVars, spawnSync, resolveVars, inputVars>>

(***************************************************************************)
(* Inputs.                                                                 *)
(***************************************************************************)
ParserNames == <<"python", "python-lib2to3", "python-typed", "python-jedi">>
ParserLists ==
    {[given |-> FALSE, list |-> <<>>]} \cup
    {[given |-> TRUE, list |-> SubSeq(ParserNames, 1, k)] : k \in 0..MaxParsers}
TwoParsers == [given |-> TRUE, list |-> SubSeq(ParserNames, 1, 2)]

CallerOptionSets ==
    {NoOptions,
     [plugins |-> << <<"./plugin">> >>, filepath |-> << <<"elsewhere", "/", "x", ".", "py">> >>,
      parser |-> <<>>, pythonBin |-> <<>>],
     [plugins |-> <<>>, filepath |-> <<>>, parser |-> <<"babylon">>, pythonBin |-> <<"jython">>],
     [plugins |-> << <<"./plugin">> >>, filepath |-> <<>>, parser |-> <<"python-typed">>,
      pythonBin |-> <<"python">>]}

HostWith(p27, p, p36) ==
    [b \in Bins |-> IF b = "python2.7" THEN p27
                    ELSE IF b = "python" THEN p
                    ELSE IF b = "python3.6" THEN p36
                    ELSE NotInstalled]
BothInstalled == HostWith(Prints("2.7.15"), Prints("2.7.15"), Prints("3.6.5"))
OnlyPython3 == HostWith(NotInstalled, Prints("3.6.5"), NotInstalled)
RunHosts ==
    {HostWith(p27, p, p36) :
        p27 \in {NotInstalled, Prints("2.7.15")},
        p \in {NotInstalled, Prints("2.7.15"), Prints("3.6.5")},
        p36 \in {NotInstalled, ExitsNonZero, Prints("3.6.5"), Prints("3.8.0rc1")}}

Module(errors) ==
    Obj([k \in {"type", "text", "errors"} |->
            IF k = "errors" THEN errors ELSE IF k = "type" THEN Str("Module") ELSE Str("x = 1")])
TreeX == Obj([k \in {"type"} |-> Str("Module")])
TreeY == Obj([k \in {"type", "body"} |-> IF k = "type" THEN Str("Module") ELSE Arr(<<Num("1")>>)])
RawAsts ==
    {Obj([k \in {"type", "text"} |-> Str("Module")]),
     Module(Undefined), Module(Null), Module(Arr(<<>>)), Module(Arr(<<Str("bad input")>>))}
CleanParse ==
    [parseThrows |-> FALSE, rawAst |-> Module(Arr(<<>>)), astMassaged |-> TreeX,
     reparseThrows |-> FALSE, ppastMassaged |-> TreeX]
PrettierDebugs ==
    [parseThrows : BOOLEAN, rawAst : RawAsts, astMassaged : {TreeX, TreeY},
     reparseThrows : BOOLEAN, ppastMassaged : {TreeX, TreeY, Undefined}]

InitRunIdle ==
    /\ python2BinAndVersion = NullBinding
    /\ python3BinAndVersion = NullBinding
    /\ AST_COMPARE = FALSE
    /\ prettierDebug = CleanParse
    /\ dirname = "tests"
    /\ dirEntries = <<>>
    /\ parsers = TwoParsers
    /\ versionRange = "*"
    /\ callerOptions = NoOptions
    /\ options = NoOptions
    /\ pc = "idle"
    /\ fileIdx = 0
    /\ binIdx = 0
    /\ pythonBinaries = <<>>
    /\ processed = <<>>
    /\ closures = <<>>
    /\ tests = <<>>
    /\ ran = {}
    /\ last = NoUnit
    /\ formatCalls = <<>>
    /\ error = NoError
    /\ dirRead = FALSE

\* The state when a spec file calls run_spec: the module has been loaded
\* (lines 11, 31, 32) and nothing is registered.
InitRun(hosts, flags, debugs, dirnames, listings, parserLists, ranges, callerOpts) ==
    /\ InitStripIdle
    /\ InitResolveIdle
    /\ spawnSync \in hosts
    /\ python2BinAndVersion = getPythonBinAndVersion(Python2Candidates, "2.*").ret
    /\ python3BinAndVersion = getPythonBinAndVersion(Python3Candidates, "3.*").ret
    /\ AST_COMPARE \in flags
    /\ prettierDebug \in debugs
    /\ dirname \in dirnames
    /\ dirEntries \in listings
    /\ parsers \in parserLists
    /\ versionRange \in ranges
    /\ callerOptions \in callerOpts
    /\ options = NoOptions
    /\ pc = "call"
    /\ fileIdx = 0
    /\ binIdx = 0
    /\ pythonBinaries = <<>>
    /\ processed = <<>>
    /\ closures = <<>>
    /\ tests = <<>>
    /\ ran = {}
    /\ last = NoUnit
    /\ formatCalls = <<>>
    /\ error = NoError
    /\ dirRead = FALSE

Next ==
    \/ RunSpecEntry
    \/ ForEachEntry
    \/ ReturnFromRunSpec
    \/ ForEachBin
    \/ \E i \in DOMAIN tests : RunAssertion(i)
    \/ \E i \in DOMAIN tests : RunSnapshot(i)
    \/ \E i \in DOMAIN tests : RunVerify(i)
    \/ \E i \in DOMAIN tests : RunParse(i)

NothingInstalled == HostWith(NotInstalled, NotInstalled, NotInstalled)

\* run_spec for every parser list and every shape of caller options: one
\* fixture under two interpreters, or two fixtures under one, and a second
\* directory
Init ==
    \/ InitRun({BothInstalled}, BOOLEAN, {CleanParse}, {"tests/python"},
               {<<>>, <<FixtureA>>, <<SpecFile, FixtureB>>},
               ParserLists, {"*"}, CallerOptionSets)
    \/ InitRun({OnlyPython3}, BOOLEAN, {CleanParse}, {"tests/python"},
               {<<FixtureA, FixtureB>>},
               ParserLists, {"*", "3.*"}, CallerOptionSets)
    \/ InitRun({OnlyPython3}, {FALSE}, {CleanParse}, {"tests/python_py3"},
               {<<FixtureB>>}, ParserLists, {"3.*"}, {NoOptions})
Spec == Init /\ [][Next]_vars

\* run_spec over every kind of directory entry
InitEnumerate ==
    InitRun({OnlyPython3}, {TRUE}, {CleanParse}, {"tests/python"},
            Listings(DirectoryEntries), {TwoParsers}, {"*"}, {NoOptions})
SpecEnumerate == InitEnumerate /\ [][Next]_vars

\* run_spec on every host and version range
InitInterpreters ==
    \/ InitRun(RunHosts, {TRUE}, {CleanParse}, {"tests/python"},
               {<<>>, <<FixtureA>>}, {TwoParsers}, VersionRanges, {NoOptions})
    \/ InitRun({BothInstalled, OnlyPython3, NothingInstalled}, {TRUE}, {CleanParse},
               {"tests/python"}, {<<FixtureA, SpecFile, FixtureB>>}, {TwoParsers},
               VersionRanges, {NoOptions})
SpecInterpreters == InitInterpreters /\ [][Next]_vars

\* run_spec with AST_COMPARE set, for every answer of the parser
InitRoundTrip ==
    InitRun({BothInstalled, OnlyPython3}, {TRUE}, PrettierDebugs, {"tests/python"},
            {<<FixtureA>>, <<FixtureB>>}, {TwoParsers}, {"*"}, {NoOptions})
SpecRoundTrip == InitRoundTrip /\ [][Next]_vars

\* getPythonBinAndVersion on every host
InitResolve ==
    /\ InitStripIdle
    /\ InitRunIdle
    /\ \E candidates \in {Python2Candidates, Python3Candidates} :
         /\ potentialBins = candidates
         /\ spawnSync \in {h \in [Bins -> ProbeResults] :
                              \A b \in Bins : (\A i \in DOMAIN candidates : candidates[i] # b)
                                                  => h[b] = NotInstalled}
    /\ versionSpec \in VersionRanges
    /\ resolved = [ret |-> NullBinding, spawned |-> <<>>]
    /\ rpc = "start"
SpecResolve == InitResolve /\ [][Resolve]_vars

\* stripExtraNonComparableKeys on every value
InitStrip ==
    /\ InitResolveIdle
    /\ InitRunIdle
    /\ spawnSync = OnlyPython3
    /\ ast \in JsValues
    /\ stripped = Undefined
    /\ restripped = Undefined
    /\ spc = "start"
SpecStrip == InitStrip /\ [][ApplyStrip]_vars

(***************************************************************************)
(* What the properties below speak of.                                     *)
(***************************************************************************)
\* the entries the forEach of line 71 has visited so far
Visited ==
    IF ~dirRead THEN 0 ELSE IF binIdx >= 1 THEN fileIdx ELSE fileIdx - 1

\* the tracks whose resolved version satisfies versionRange
Track2Admitted ==
    python2BinAndVersion # NullBinding /\ Satisfies(python2BinAndVersion[2], versionRange)
Track3Admitted ==
    python3BinAndVersion # NullBinding /\ Satisfies(python3BinAndVersion[2], versionRange)
WorkingSet ==
    (IF Track2Admitted THEN <<python2BinAndVersion[1]>> ELSE <<>>) \o
    (IF Track3Admitted THEN <<python3BinAndVersion[1]>> ELSE <<>>)

\* the (fixture, interpreter) iterations of lines 81-127 that ran to their end
Completed ==
    IF binIdx >= 1 THEN (Len(processed) - 1) * Len(WorkingSet) + (binIdx - 1)
    ELSE Len(processed) * Len(WorkingSet)
\* the k-th (fixture, interpreter) pair, fixtures outermost
PairAt(k) ==
    <<processed[((k - 1) \div Len(WorkingSet)) + 1], WorkingSet[((k - 1) % Len(WorkingSet)) + 1]>>

UnitsOfKind(kind) == {i \in DOMAIN tests : tests[i].kind = kind}
VerifyParsersOf(e) ==
    LET IsVerifyOf(u) == u.kind = "verify" /\ u.env = e
        units == SelectSeq(tests, IsVerifyOf)
    IN  [k \in DOMAIN units |-> units[k].parser]

(***************************************************************************)
(* C1.  A formatting error raised for one fixture, parser and interpreter  *)
(* fails only that unit: it never propagates out of run_spec, whichever    *)
(* parser of the list it was raised under, so the sibling units are still  *)
(* registered and run.                                                     *)
(***************************************************************************)
C1_FormatErrorIsolated ==
    /\ ~(pc = "threw" /\ error.kind = "FormatError")
    /\ \A k \in DOMAIN formatCalls :
         formatCalls[k].outcome = Threw /\ formatCalls[k].site # "round-trip"
             => pc \in {"loop", "returned"}

(***************************************************************************)
(* C2.  Every (fixture, interpreter) whose registration ran to its end has *)
(* one verify unit per parser after the first, in parser-list order; a     *)
(* verify unit, whenever it runs, calls the formatter once, on the source  *)
(* of the reference run and with the options of the reference run except   *)
(* that parser is its own parser, and passes exactly when the output       *)
(* equals the reference output.                                            *)
(***************************************************************************)
C2_CrossParserVerify ==
    /\ pc \in {"loop", "returned"} =>
         /\ Len(closures) = Completed
         /\ \A e \in DOMAIN closures :
              /\ <<closures[e].filename, closures[e].pythonBin>> = PairAt(e)
              /\ VerifyParsersOf(e) = Tail(parsers.list)
    /\ last.kind = "verify" =>
         LET u == tests[last.unit]
             c == closures[u.env]
         IN  /\ Len(formatCalls) = 1
             /\ formatCalls[1].src = c.source
             /\ c.refOptions.parser = <<parsers.list[1]>>
             /\ c.refOptions.pythonBin = <<c.pythonBin>>
             /\ u.parser # parsers.list[1]
             /\ formatCalls[1].options = [c.refOptions EXCEPT !.parser = <<u.parser>>]
             /\ (last.status = "passed" <=> formatCalls[1].outcome = c.output)

\* a verify unit passes after a later-registered verify unit of the same
\* fixture and interpreter has run
C2_Witness ==
    /\ last.kind = "verify"
    /\ last.status = "passed"
    /\ \E j \in ran : /\ j > last.unit
                      /\ tests[j].kind = "verify"
                      /\ tests[j].env = tests[last.unit].env

(***************************************************************************)
(* C9.  Running a verify unit leaves the reference option set of its       *)
(* fixture and interpreter unchanged: after any units have run, every      *)
(* mergedOptions still has parser = parsers[0].                            *)
(***************************************************************************)
C9_ReferenceOptionsUnchanged ==
    \A e \in DOMAIN closures : closures[e].mergedOptions.parser = <<parsers.list[1]>>

(***************************************************************************)
(* C8.  Every option set handed to the formatter is the defaults, then the *)
(* caller's options, then the derived fields: plugins and filepath are the *)
(* caller's when given and the defaults (["."], the fixture's path)        *)
(* otherwise; parser is one parser of the list and pythonBin one           *)
(* interpreter of the working set, whatever the caller gave for them.      *)
(***************************************************************************)
C8_OptionPriority ==
    \A k \in DOMAIN formatCalls :
        LET o == formatCalls[k].options IN
        /\ o.plugins = IF callerOptions.plugins = <<>> THEN << <<".">> >>
                       ELSE callerOptions.plugins
        /\ o.filepath = IF callerOptions.filepath = <<>> THEN <<formatCalls[k].path>>
                        ELSE callerOptions.filepath
        /\ \E j \in DOMAIN parsers.list : o.parser = <<parsers.list[j]>>
        /\ \E j \in DOMAIN WorkingSet : o.pythonBin = <<WorkingSet[j]>>

\* a verify unit has called the formatter although the caller's options
\* name a parser and an interpreter of their own
C8_Witness ==
    /\ callerOptions.parser = <<"babylon">>
    /\ callerOptions.pythonBin = <<"jython">>
    /\ formatCalls # <<>>
    /\ formatCalls[1].site = "verify"

(***************************************************************************)
(* C4.  With a missing or empty parser list run_spec throws an error whose *)
(* message names the directory, before the directory is read, before any   *)
(* unit is registered and before the formatter is called; with a non-empty *)
(* list that error is never thrown.                                        *)
(***************************************************************************)
C4_NoParsersThrows ==
    /\ (~parsers.given \/ parsers.list = <<>>) =>
          /\ pc \in {"call", "threw"}
          /\ ~dirRead
          /\ tests = <<>>
          /\ closures = <<>>
          /\ formatCalls = <<>>
          /\ pc = "threw" =>
                error = [kind |-> "Error",
                         message |-> <<"No parsers were specified for ", dirname>>]
    /\ (parsers.given /\ parsers.list # <<>>) =>
          /\ error.kind # "Error"
          /\ pc # "call" => dirRead

\* run_spec has thrown on a parser list that was given, and empty
C4_Witness ==
    /\ parsers.given
    /\ parsers.list = <<>>
    /\ dirEntries # <<>>
    /\ pc = "threw"

(***************************************************************************)
(* C5.  getPythonBinAndVersion probes the candidates in list order, each   *)
(* at most once, stops at the first one that runs, exits zero and reports  *)
(* a version satisfying the constraint, and returns that candidate with    *)
(* its version; it returns null when there is none, having probed all.     *)
(***************************************************************************)
Usable(bin) ==
    /\ spawnSync[bin].spawned
    /\ spawnSync[bin].status = 0
    /\ Satisfies(Trim(spawnSync[bin].stdout), versionSpec)

C5_FirstSatisfying ==
    rpc = "done" =>
        LET n == Len(resolved.spawned) IN
        /\ n <= Len(potentialBins)
        /\ resolved.spawned = SubSeq(potentialBins, 1, n)
        /\ \A j \in 1..(n - 1) : ~Usable(potentialBins[j])
        /\ IF \E j \in DOMAIN potentialBins : Usable(potentialBins[j])
           THEN /\ n >= 1
                /\ Usable(potentialBins[n])
                /\ resolved.ret = <<potentialBins[n], Trim(spawnSync[potentialBins[n]].stdout)>>
                /\ Satisfies(resolved.ret[2], versionSpec)
           ELSE /\ resolved.ret = NullBinding
                /\ n = Len(potentialBins)

\* the last candidate is returned after one that is missing and one that
\* runs but reports a version outside the constraint
C5_Witness ==
    /\ rpc = "done"
    /\ resolved.ret # NullBinding
    /\ resolved.ret[1] = "python"
    /\ ~spawnSync[potentialBins[1]].spawned
    /\ spawnSync[potentialBins[2]].stdout = <<"2.7.15", "\n">>
    /\ versionSpec = "3.*"

(***************************************************************************)
(* C6.  Every call of getPythonBinaries registers one "At least one valid  *)
(* Python version" unit, which passes exactly when the working set is not  *)
(* empty, and one "Both Python versions available" unit exactly when       *)
(* versionRange is "*", which passes exactly when both tracks are in the   *)
(* working set.  Whatever these units report, the fixture's units are      *)
(* registered for each interpreter of the working set, and for none when   *)
(* the working set is empty.                                               *)
(***************************************************************************)
C6_InterpreterAssertions ==
    /\ Cardinality(UnitsOfKind("at-least-one")) = Len(processed)
    /\ Cardinality(UnitsOfKind("both")) = IF versionRange = "*" THEN Len(processed) ELSE 0
    /\ last.kind = "at-least-one" =>
          (last.status = "passed" <=> (Track2Admitted \/ Track3Admitted))
    /\ last.kind = "both" =>
          (last.status = "passed" <=> (Track2Admitted /\ Track3Admitted))
    /\ pc \in {"loop", "returned"} =>
          /\ Len(closures) = Completed
          /\ \A e \in DOMAIN closures :
               /\ <<closures[e].filename, closures[e].pythonBin>> = PairAt(e)
               /\ \E i \in UnitsOfKind("snapshot") : tests[i].env = e
    /\ WorkingSet = <<>> =>
          /\ closures = <<>>
          /\ \A i \in DOMAIN tests : tests[i].kind \in {"at-least-one", "both"}

\* the "both" unit has failed, the host having one track only, and the
\* fixtures' units were registered and run for that interpreter
C6_Witness ==
    /\ last.kind = "both"
    /\ last.status = "failed"
    /\ Len(WorkingSet) = 1
    /\ Len(processed) = 2
    /\ Len(closures) = 2
    /\ \E i \in ran : tests[i].kind = "verify"

(***************************************************************************)
(* C7.  The fixtures run_spec processes are, in directory order, the       *)
(* entries that are regular files (a symbolic link to a regular file       *)
(* counting as one), do not end in .snap, do not start with "." and are    *)
(* not named jsfmt.spec.js; no other entry is read or formatted.           *)
(***************************************************************************)
NamesOf(entries) == [i \in DOMAIN entries |-> entries[i].name]
EndsInSnap(name) ==
    /\ Len(name) >= 3
    /\ name[Len(name) - 1] = "."
    /\ name[Len(name)] = "snap"
NameAdmitted(name) ==
    /\ ~EndsInSnap(name)
    /\ name[1] # "."
    /\ name # <<"jsfmt", ".", "spec", ".", "js">>

C7_EnumerationAsClaimed ==
    LET Claimed(entry) == entry.target = "file" /\ NameAdmitted(entry.name)
    IN  /\ processed = NamesOf(SelectSeq(SubSeq(dirEntries, 1, Visited), Claimed))
        /\ \A e \in DOMAIN closures : \E k \in DOMAIN processed :
              processed[k] = closures[e].filename

(***************************************************************************)
(* C7, amended.  As C7, except that a symbolic link is never a fixture,    *)
(* whatever it points to: the entry itself must be a regular file.         *)
(***************************************************************************)
C7_Enumeration ==
    LET Eligible(entry) == entry.kind = "file" /\ NameAdmitted(entry.name)
    IN  /\ processed = NamesOf(SelectSeq(SubSeq(dirEntries, 1, Visited), Eligible))
        /\ \A e \in DOMAIN closures : \E k \in DOMAIN processed :
              processed[k] = closures[e].filename

\* run_spec has returned from a directory holding a symbolic link to a
\* regular file and a fixture, having processed the fixture alone
C7_Witness ==
    /\ pc = "returned"
    /\ \E i \in DOMAIN dirEntries :
         dirEntries[i].kind = "symlink" /\ dirEntries[i].target = "file"
    /\ Len(processed) = 1
    /\ Len(closures) = 1

(***************************************************************************)
(* C3.  With AST_COMPARE set, the parse unit passes exactly when the       *)
(* re-format and re-parse threw nothing, the normalised re-parsed tree is  *)
(* defined and, if the first parse reported no errors (its error list is   *)
(* absent or empty), the two normalised trees are equal; the trees are     *)
(* compared exactly when the first parse reported no errors.               *)
(***************************************************************************)
\* noErrors: prettier.__debug.parse reported no error list for the source,
\* or one of the values of `absent`
ParseUnitAsClaimed(absent) ==
    last.kind = "parse" =>
        LET c == closures[tests[last.unit].env]
            rethrew == c.roundTrip = Threw \/ prettierDebug.reparseThrows
            reported == prettierDebug.rawAst.val
            noErrors == "errors" \notin DOMAIN reported \/ reported["errors"] \in absent
        IN  /\ c.pperr = "null" <=> ~rethrew
            /\ last.status = "passed" <=>
                  /\ ~rethrew
                  /\ c.ppastMassaged # Undefined
                  /\ noErrors => c.astMassaged = c.ppastMassaged
            /\ (~rethrew /\ c.ppastMassaged # Undefined) => (last.compared <=> noErrors)
            /\ ~noErrors => ~last.compared

C3_ParseUnit == ParseUnitAsClaimed({Undefined, Null, Arr(<<>>)})

\* What holds of the code: an error list that is null is taken for errors,
\* stripExtraNonComparableKeys having made {} of it.
C3_ParseUnitNullTakenForErrors == ParseUnitAsClaimed({Undefined, Arr(<<>>)})

(***************************************************************************)
(* C10.  stripExtraNonComparableKeys(t) is t with every "text" field       *)
(* removed at every depth and nothing else changed: arrays map element by  *)
(* element, objects keep every other key, every scalar, null and undefined *)
(* included, is returned as it is; the result holds no "text" key and      *)
(* stripping it again changes nothing.                                     *)
(***************************************************************************)
RECURSIVE WithoutText(_, _)
WithoutText(v, ofNull) ==
    IF v.t = "array" THEN Arr([i \in DOMAIN v.val |-> WithoutText(v.val[i], ofNull)])
    ELSE IF v.t = "object"
    THEN Obj([k \in DOMAIN v.val \ {"text"} |-> WithoutText(v.val[k], ofNull)])
    ELSE IF v.t = "null" THEN ofNull
    ELSE v

RECURSIVE HasTextKey(_)
HasTextKey(v) ==
    IF v.t = "array" THEN \E i \in DOMAIN v.val : HasTextKey(v.val[i])
    ELSE IF v.t = "object"
    THEN "text" \in DOMAIN v.val \/ \E k \in DOMAIN v.val : HasTextKey(v.val[k])
    ELSE FALSE

C10_StripRemovesTextOnly ==
    spc = "done" =>
        /\ stripped = WithoutText(ast, Null)
        /\ ~HasTextKey(stripped)
        /\ restripped = stripped

\* What holds of the code: null comes back as the empty object.
C10_StripMakesObjectOfNull ==
    spc = "done" =>
        /\ stripped = WithoutText(ast, Obj(<<>>))
        /\ ~HasTextKey(stripped)
        /\ restripped = stripped

====
